---- MODULE Spec2Model ----
(***************************************************************************)
(* Inkling client: the capture / upload / result state machine of the App  *)
(* component (React state mode/result/error/preview, the refs streamRef,   *)
(* videoRef and fileInputRef) together with the asynchronous completions   *)
(* the handlers hand off to the platform: getUserMedia, the 50 ms bind     *)
(* timer, FileReader.onload, canvas.toBlob and fetch.                      *)
(*                                                                         *)
(* One action is one run-to-completion step of the browser's event loop:   *)
(* a user event handler, or the continuation of an await / callback.       *)
(* React commits the render of the state set by a step before the next     *)
(* step runs, so the mounted elements are a function of mode.              *)
(***************************************************************************)
EXTENDS Integers, Sequences, FiniteSets, TLC

VARIABLES
    mode,        \* useState<Mode>
    result,      \* useState<string | null>
    error,       \* useState<string | null>
    preview,     \* useState<string | null>
    streamRef,   \* streamRef.current: the stored MediaStream, NoStream when null
    live,        \* streams opened by getUserMedia whose tracks are not stopped
    opened,      \* number of streams getUserMedia has granted so far
    videoSrc,    \* videoRef.current.srcObject of the mounted <video>, NoStream when unset
    fileValue,   \* the file <input> holds a selection
    pendingCam,  \* getUserMedia requests not yet resolved
    timerQ,      \* pending 50 ms bind timers, each with the stream it closed over
    pendingRead, \* FileReader reads not yet loaded
    blobQ,       \* pending canvas.toBlob callbacks: TRUE = a blob, FALSE = null
    inflight,    \* handleOCR calls whose fetch has not resolved
    clipboard,   \* the text the step just taken wrote with navigator.clipboard.writeText, NULL when it wrote none
    mounting,    \* the first render of the camera view is still to come: videoRef.current is null
    reqs         \* server: the POST /api/ocr requests, each idle, awaiting the upstream call, or answered

vars == <<mode, result, error, preview, streamRef, live, opened, videoSrc,
          fileValue, pendingCam, timerQ, pendingRead, blobQ, inflight, clipboard,
          mounting, reqs>>

\* the state of the page
page == <<mode, result, error, preview, streamRef, live, opened, videoSrc,
          fileValue, pendingCam, timerQ, pendingRead, blobQ, inflight, clipboard,
          mounting>>

----------------------------------------------------------------------------
(* Bounds *)

MaxLen == 1
MaxStreams == 2
MaxPending == 4
MaxPad == 1
MaxReqs == 2

----------------------------------------------------------------------------
(* Values *)

Modes == {"home", "camera", "processing", "result"}

\* null of a string | null state; strings are sequences of characters
NULL == <<"null">>

NoStream == 0

Chars == {"a", " "}

Texts == UNION {[1..n -> Chars] : n \in 0..MaxLen}

IsSpace(c) == c = " "

RECURSIVE TrimStart(_)
TrimStart(s) ==
    IF s = <<>> THEN s
    ELSE IF IsSpace(Head(s)) THEN TrimStart(Tail(s)) ELSE s

RECURSIVE TrimEnd(_)
TrimEnd(s) ==
    IF s = <<>> THEN s
    ELSE IF IsSpace(s[Len(s)]) THEN TrimEnd(SubSeq(s, 1, Len(s) - 1)) ELSE s

\* String.prototype.trim
Trim(s) == TrimEnd(TrimStart(s))

\* n spaces
Spaces(n) == [i \in 1..n |-> " "]

\* strings a response body can carry in its text field: a text with
\* whitespace around it
BodyTexts == {Spaces(i) \o t \o Spaces(j) : t \in Texts, i \in 0..MaxPad, j \in 0..MaxPad}

StatusTexts == {"Internal Server Error", "Bad Request"}

CameraError == <<"Camera access denied or unavailable">>

ServerError(statusText) == <<"Server error: ", statusText>>

\* message of the TypeError a failed fetch rejects with
NetworkFailure == <<"Failed to fetch">>

\* message of the SyntaxError response.json() rejects with
ParseFailure == <<"Unexpected token">>

FilePreview == <<"data:file">>

FramePreview == <<"data:image/jpeg">>

\* What a fetch of /api/ocr can resolve to.
\*   net    : "response" or "failure" (the promise rejects)
\*   ok     : response.ok
\*   status : response.statusText
\*   json   : "object" (parsable body) or "invalid"
\*   kind   : typeof data.text -- "string", "undefined" or "number"
\*   text   : data.text when it is a string
Outcome(net, ok, status, json, kind, text) ==
    [net |-> net, ok |-> ok, status |-> status, json |-> json,
     kind |-> kind, text |-> text]

Responses ==
    {Outcome("failure", FALSE, "", "invalid", "undefined", <<>>)}
    \cup {Outcome("response", FALSE, s, "object", "undefined", <<>>) : s \in StatusTexts}
    \cup {Outcome("response", TRUE, "OK", "invalid", "undefined", <<>>)}
    \cup {Outcome("response", TRUE, "OK", "object", k, <<>>) : k \in {"undefined", "number"}}
    \cup {Outcome("response", TRUE, "OK", "object", "string", t) : t \in BodyTexts}

----------------------------------------------------------------------------
(* Server values *)

\* limits.fileSize of the multer configuration
FileSizeLimit == 50 * 1024 * 1024

\* "image/"
ImagePrefix == <<"i", "m", "a", "g", "e", "/">>

\* String.prototype.startsWith
StartsWith(str, prefix) ==
    /\ Len(str) >= Len(prefix)
    /\ SubSeq(str, 1, Len(prefix)) = prefix

\* mimetypes of uploaded parts: image/png, text/png, image
Mimes == {ImagePrefix \o <<"p", "n", "g">>,
          <<"t", "e", "x", "t", "/", "p", "n", "g">>,
          <<"i", "m", "a", "g", "e">>}

\* sizes of uploaded parts in bytes: within the limit, beyond it
Sizes == {1024, FileSizeLimit + 1024}

\* a POST /api/ocr request: whether it carries a part named "image", and
\* the mimetype and size of that part
Requests == [field : BOOLEAN, mime : Mimes, size : Sizes]

\* a request slot nothing was sent on yet
Idle == [stage |-> "idle"]

\* the request passed multer and the handler awaits anthropic.messages.create
Upstream(q) == [stage |-> "upstream", req |-> q]

\* the request was answered; by names the code that wrote the response
Answered(q, by, status, body) ==
    [stage |-> "answered", req |-> q, by |-> by, status |-> status, body |-> body]

\* fileFilter of the multer configuration: the file is accepted
fileFilter(q) == StartsWith(q.mime, ImagePrefix)

\* what upload.single("image") hands on: "next" with req.file unset or set,
\* or the error it passes to next(err)
uploadSingle(q) ==
    IF ~q.field THEN [next |-> "handler", file |-> FALSE]
    ELSE IF ~fileFilter(q) THEN [next |-> "error", message |-> "Only image files are allowed"]
    ELSE IF q.size > FileSizeLimit THEN [next |-> "error", message |-> "File too large"]
    ELSE [next |-> "handler", file |-> TRUE]

\* the application registers no error-handling middleware: an error passed
\* to next(err) reaches the default handler of express, which answers with
\* err.status when the error carries one and with 500 otherwise; the errors
\* of multer and of fileFilter carry none
DefaultErrorStatus == 500

----------------------------------------------------------------------------
(* Rendering: which elements are mounted is a function of mode *)

\* videoRef.current and canvasRef.current are set while the camera view is rendered
VideoMounted(m) == m = "camera"

\* fileInputRef.current is set while the main app shell is rendered
FileInputMounted(m) == m /= "camera"

\* srcObject of the <video> after a render with mode m: a newly mounted
\* element has none, an unmounted one is gone
VideoAfter(m) == IF VideoMounted(mode) /\ VideoMounted(m) THEN videoSrc ELSE NoStream

\* value of the file <input> after a render with mode m
FileValueAfter(m, v) == IF FileInputMounted(mode) /\ FileInputMounted(m) THEN v ELSE FALSE

----------------------------------------------------------------------------

\* completions the platform still owes the page: the model stops starting
\* new ones at MaxPending
Pending == pendingCam + pendingRead + Len(blobQ) + Len(timerQ) + inflight

Init ==
    /\ mode = "home"
    /\ result = NULL
    /\ error = NULL
    /\ preview = NULL
    /\ streamRef = NoStream
    /\ live = {}
    /\ opened = 0
    /\ videoSrc = NoStream
    /\ fileValue = FALSE
    /\ pendingCam = 0
    /\ timerQ = <<>>
    /\ pendingRead = 0
    /\ blobQ = <<>>
    /\ inflight = 0
    /\ clipboard = NULL
    /\ mounting = FALSE
    /\ reqs = [i \in 1..MaxReqs |-> Idle]

----------------------------------------------------------------------------
(* Helpers shared by the handlers *)

\* JavaScript truthiness of a string | null
Truthy(s) == s /= NULL /\ s /= <<>>

\* stopCamera: stop every track of the stored stream, then drop the handle
stopCamera ==
    /\ live' = live \ {streamRef}
    /\ streamRef' = NoStream

\* handleOCR up to the await of fetch
handleOCR ==
    /\ mode' = "processing"
    /\ error' = NULL
    /\ result' = NULL
    /\ inflight' = inflight + 1
    /\ videoSrc' = VideoAfter("processing")

\* setResult(data.text) without the trim
ResultTextRaw(r) == IF r.kind = "string" THEN r.text ELSE <<>>

\* the value handleOCR passes to setResult for a parsed body
ResultText(r) == IF r.kind = "string" THEN Trim(r.text) ELSE <<>>

\* TRUE when the try block of handleOCR runs to its end for outcome r
Succeeds(r) == r.net = "response" /\ r.ok /\ r.json = "object"

\* a catch block that has no message for a body that does not parse
ErrorMessageNoParse(r) ==
    IF r.net = "failure" THEN NetworkFailure
    ELSE IF ~r.ok THEN ServerError(r.status)
    ELSE NULL

\* err.message of what the try block throws for outcome r
ErrorMessage(r) ==
    IF r.net = "failure" THEN NetworkFailure
    ELSE IF ~r.ok THEN ServerError(r.status)
    ELSE ParseFailure

\* a catch block that stores the error without setMode("result")
handleOCRDoneStuck(r) ==
    /\ result' = IF Succeeds(r) THEN ResultText(r) ELSE result
    /\ error' = IF Succeeds(r) THEN error ELSE ErrorMessage(r)
    /\ mode' = IF Succeeds(r) THEN "result" ELSE mode
    /\ inflight' = inflight - 1
    /\ videoSrc' = IF Succeeds(r) THEN VideoAfter("result") ELSE videoSrc
    /\ fileValue' = IF Succeeds(r) THEN FileValueAfter("result", fileValue) ELSE fileValue

\* handleOCR after the await: the rest of the try block, or the catch block
handleOCRDone(r) ==
    /\ result' = IF Succeeds(r) THEN ResultText(r) ELSE result
    /\ error' = IF Succeeds(r) THEN error ELSE ErrorMessage(r)
    /\ mode' = "result"
    /\ inflight' = inflight - 1
    /\ videoSrc' = VideoAfter("result")
    /\ fileValue' = FileValueAfter("result", fileValue)

\* startCamera after the await, access granted: s is the new stream
startCameraGranted(s) ==
    /\ streamRef' = s
    /\ mode' = "camera"
    /\ timerQ' = Append(timerQ, s)
    /\ videoSrc' = VideoAfter("camera")
    /\ fileValue' = FileValueAfter("camera", fileValue)
    /\ UNCHANGED error

\* a catch block that swallows the failure without setError
startCameraDeniedSilent ==
    UNCHANGED <<error, mode, streamRef, timerQ, videoSrc, fileValue>>

\* startCamera after the await, access refused: the catch block
startCameraDenied ==
    /\ error' = CameraError
    /\ UNCHANGED <<mode, streamRef, timerQ, videoSrc, fileValue>>

\* the render shows the error box: only the result view renders error
ErrorShown == mode = "result" /\ Truthy(error)

\* blobs canvas.toBlob can deliver: a canvas sized from a <video> that never
\* had a stream is 0 x 0 and encodes to null; otherwise encoding may still fail
BlobOutcomes == IF videoSrc = NoStream THEN {FALSE} ELSE {TRUE, FALSE}

----------------------------------------------------------------------------
(* User actions: offered by the controls the current render shows *)

\* Upload label (home): the change event of the file input with a file chosen
handleFileSelect ==
    /\ mode = "home"
    /\ FileInputMounted(mode)
    /\ Pending + 1 < MaxPending
    /\ pendingRead' = pendingRead + 1
    /\ fileValue' = TRUE
    /\ handleOCR
    /\ clipboard' = NULL
    /\ UNCHANGED <<preview, streamRef, live, opened, pendingCam, timerQ, blobQ>>
    /\ UNCHANGED <<mounting, reqs>>

\* Scan button (home): startCamera up to the await of getUserMedia
startCamera ==
    /\ mode = "home"
    /\ pendingCam + opened < MaxStreams
    /\ Pending < MaxPending
    /\ error' = NULL
    /\ pendingCam' = pendingCam + 1
    /\ clipboard' = NULL
    /\ UNCHANGED <<mode, result, preview, streamRef, live, opened, videoSrc, fileValue,
                   timerQ, pendingRead, blobQ, inflight>>
    /\ UNCHANGED <<mounting, reqs>>

\* a capture that leaves the stream running
capturePhotoNoStop ==
    /\ mode = "camera"
    /\ VideoMounted(mode)
    /\ Pending < MaxPending
    /\ preview' = FramePreview
    /\ \E b \in BlobOutcomes : blobQ' = Append(blobQ, b)
    /\ clipboard' = NULL
    /\ UNCHANGED <<mode, result, error, streamRef, live, opened, videoSrc, fileValue,
                   pendingCam, timerQ, pendingRead, inflight>>
    /\ UNCHANGED <<mounting, reqs>>

\* Shutter button (camera view)
capturePhoto ==
    /\ mode = "camera"
    /\ VideoMounted(mode)
    /\ Pending < MaxPending
    /\ preview' = FramePreview
    /\ stopCamera
    /\ \E b \in BlobOutcomes : blobQ' = Append(blobQ, b)
    /\ clipboard' = NULL
    /\ UNCHANGED <<mode, result, error, opened, videoSrc, fileValue, pendingCam, timerQ,
                   pendingRead, inflight>>
    /\ UNCHANGED <<mounting, reqs>>

\* a reset that forgets setPreview(null)
resetKeepsPreview ==
    /\ stopCamera
    /\ mode' = "home"
    /\ result' = NULL
    /\ error' = NULL
    /\ fileValue' = FALSE
    /\ videoSrc' = VideoAfter("home")
    /\ clipboard' = NULL
    /\ UNCHANGED <<preview, opened, pendingCam, timerQ, pendingRead, blobQ, inflight>>
    /\ UNCHANGED <<mounting, reqs>>

\* the body of handleReset
reset ==
    /\ stopCamera
    /\ mode' = "home"
    /\ result' = NULL
    /\ error' = NULL
    /\ preview' = NULL
    /\ fileValue' = FALSE
    /\ videoSrc' = VideoAfter("home")
    /\ clipboard' = NULL
    /\ UNCHANGED <<opened, pendingCam, timerQ, pendingRead, blobQ, inflight>>
    /\ UNCHANGED <<mounting, reqs>>

\* a reset that forgets to call stopCamera
handleResetNoStop ==
    /\ mode \in {"camera", "result"}
    /\ mode' = "home"
    /\ result' = NULL
    /\ error' = NULL
    /\ preview' = NULL
    /\ fileValue' = FALSE
    /\ videoSrc' = VideoAfter("home")
    /\ clipboard' = NULL
    /\ UNCHANGED <<streamRef, live, opened, pendingCam, timerQ, pendingRead, blobQ, inflight>>
    /\ UNCHANGED <<mounting, reqs>>

\* Cancel (camera view), Try again / Scan again (result view): the controls
\* that call handleReset
handleReset ==
    /\ mode \in {"camera", "result"}
    /\ reset

\* typing in the result textarea, rendered in the result view when no error shows
editResult ==
    /\ mode = "result"
    /\ ~Truthy(error)
    /\ \E t \in Texts : result' = t
    /\ clipboard' = NULL
    /\ UNCHANGED <<mode, error, preview, streamRef, live, opened, videoSrc, fileValue,
                   pendingCam, timerQ, pendingRead, blobQ, inflight>>
    /\ UNCHANGED <<mounting, reqs>>

\* Copy text button (result view, no error)
handleCopy ==
    /\ mode = "result"
    /\ ~Truthy(error)
    /\ clipboard' = IF Truthy(result) THEN result ELSE NULL
    /\ UNCHANGED <<mode, result, error, preview, streamRef, live, opened, videoSrc,
                   fileValue, pendingCam, timerQ, pendingRead, blobQ, inflight>>
    /\ UNCHANGED <<mounting, reqs>>

----------------------------------------------------------------------------
(* Asynchronous completions *)

\* getUserMedia resolves with a new stream
getUserMediaGranted ==
    /\ pendingCam > 0
    /\ opened < MaxStreams
    /\ pendingCam' = pendingCam - 1
    /\ opened' = opened + 1
    /\ live' = live \cup {opened + 1}
    /\ startCameraGranted(opened + 1)
    /\ clipboard' = NULL
    /\ UNCHANGED <<result, preview, pendingRead, blobQ, inflight>>
    /\ UNCHANGED <<mounting, reqs>>

\* getUserMedia rejects
getUserMediaDenied ==
    /\ pendingCam > 0
    /\ pendingCam' = pendingCam - 1
    /\ startCameraDenied
    /\ clipboard' = NULL
    /\ UNCHANGED <<result, preview, live, opened, pendingRead, blobQ, inflight>>
    /\ UNCHANGED <<mounting, reqs>>

\* the 50 ms timer of startCamera fires
bindTimer ==
    /\ timerQ /= <<>>
    /\ timerQ' = Tail(timerQ)
    /\ videoSrc' = IF VideoMounted(mode) THEN Head(timerQ) ELSE videoSrc
    /\ clipboard' = NULL
    /\ UNCHANGED <<mode, result, error, preview, streamRef, live, opened, fileValue,
                   pendingCam, pendingRead, blobQ, inflight>>
    /\ UNCHANGED <<mounting, reqs>>

\* reader.onload of handleFileSelect
readerOnload ==
    /\ pendingRead > 0
    /\ pendingRead' = pendingRead - 1
    /\ preview' = FilePreview
    /\ clipboard' = NULL
    /\ UNCHANGED <<mode, result, error, streamRef, live, opened, videoSrc, fileValue,
                   pendingCam, timerQ, blobQ, inflight>>
    /\ UNCHANGED <<mounting, reqs>>

\* the callback of canvas.toBlob runs with a blob: handleOCR starts
toBlobCallbackBlob ==
    /\ blobQ /= <<>>
    /\ Head(blobQ)
    /\ blobQ' = Tail(blobQ)
    /\ handleOCR
    /\ fileValue' = FileValueAfter("processing", fileValue)
    /\ clipboard' = NULL
    /\ UNCHANGED <<preview, streamRef, live, opened, pendingCam, timerQ, pendingRead>>
    /\ UNCHANGED <<mounting, reqs>>

\* the callback of canvas.toBlob runs with null: nothing happens
toBlobCallbackNull ==
    /\ blobQ /= <<>>
    /\ ~Head(blobQ)
    /\ blobQ' = Tail(blobQ)
    /\ clipboard' = NULL
    /\ UNCHANGED <<mode, result, error, preview, streamRef, live, opened, videoSrc,
                   fileValue, pendingCam, timerQ, pendingRead, inflight>>
    /\ UNCHANGED <<mounting, reqs>>

\* the fetch of a handleOCR call settles
fetchResolved ==
    /\ inflight > 0
    /\ \E r \in Responses : handleOCRDone(r)
    /\ clipboard' = NULL
    /\ UNCHANGED <<preview, streamRef, live, opened, pendingCam, timerQ, pendingRead,
                   blobQ>>
    /\ UNCHANGED <<mounting, reqs>>

----------------------------------------------------------------------------

----------------------------------------------------------------------------
(* Server: POST /api/ocr *)

\* a request arrives: upload.single("image") runs, then the handler up to
\* its await, or the default error handler
postOcr(i) ==
    /\ reqs[i] = Idle
    /\ \E q \in Requests :
        LET u == uploadSingle(q) IN
        reqs' = [reqs EXCEPT ![i] =
            IF u.next = "error"
                THEN Answered(q, "default", DefaultErrorStatus, u.message)
            ELSE IF ~u.file
                THEN Answered(q, "handler", 400, "No image provided")
            ELSE Upstream(q)]
    /\ UNCHANGED page

\* anthropic.messages.create resolves: the handler answers with the trimmed text
messagesCreateResolved(i) ==
    /\ reqs[i].stage = "upstream"
    /\ \E t \in BodyTexts :
        reqs' = [reqs EXCEPT ![i] = Answered(reqs[i].req, "handler", 200, Trim(t))]
    /\ UNCHANGED page

\* anthropic.messages.create rejects: the catch block
messagesCreateRejected(i) ==
    /\ reqs[i].stage = "upstream"
    /\ reqs' = [reqs EXCEPT ![i] =
            Answered(reqs[i].req, "catch", 500, "Failed to process image")]
    /\ UNCHANGED page

----------------------------------------------------------------------------
(* Camera view mounting after the render that follows setMode("camera") *)

\* videoRef.current is set
videoRefSet == VideoMounted(mode) /\ ~mounting

\* getUserMedia resolves with a new stream; the render that mounts the
\* camera view has not run yet when the continuation returns
getUserMediaGrantedUnrendered ==
    /\ pendingCam > 0
    /\ opened < MaxStreams
    /\ pendingCam' = pendingCam - 1
    /\ opened' = opened + 1
    /\ live' = live \cup {opened + 1}
    /\ startCameraGranted(opened + 1)
    /\ mounting' = (mounting \/ ~VideoMounted(mode))
    /\ clipboard' = NULL
    /\ UNCHANGED <<result, preview, pendingRead, blobQ, inflight, reqs>>

\* the render commits: the camera view mounts and videoRef.current is set
mountVideo ==
    /\ mounting
    /\ mounting' = FALSE
    /\ clipboard' = NULL
    /\ UNCHANGED <<mode, result, error, preview, streamRef, live, opened, videoSrc,
                   fileValue, pendingCam, timerQ, pendingRead, blobQ, inflight, reqs>>

\* the 50 ms timer of startCamera fires, before or after the render
bindTimerOnce ==
    /\ timerQ /= <<>>
    /\ timerQ' = Tail(timerQ)
    /\ videoSrc' = IF videoRefSet THEN Head(timerQ) ELSE videoSrc
    /\ clipboard' = NULL
    /\ UNCHANGED <<mode, result, error, preview, streamRef, live, opened, fileValue,
                   pendingCam, pendingRead, blobQ, inflight, mounting, reqs>>

Next ==
    \/ handleFileSelect
    \/ startCamera
    \/ capturePhoto
    \/ handleReset
    \/ editResult
    \/ handleCopy
    \/ getUserMediaGranted
    \/ getUserMediaDenied
    \/ bindTimer
    \/ readerOnload
    \/ toBlobCallbackBlob
    \/ toBlobCallbackNull
    \/ fetchResolved

Spec == Init /\ [][Next]_vars

\* the upload path: a file is selected, read and relayed, the result is
\* edited, copied and reset, while camera requests are made and refused
NextRelay ==
    \/ handleFileSelect
    \/ startCamera
    \/ getUserMediaDenied
    \/ readerOnload
    \/ fetchResolved
    \/ handleReset
    \/ editResult
    \/ handleCopy

SpecRelay == Init /\ [][NextRelay]_vars

\* the relay request eventually resolves: a pending fetch settles
FairSpec == Spec /\ WF_vars(fetchResolved)

\* the server alone
NextServer ==
    \E i \in 1..MaxReqs :
        \/ postOcr(i)
        \/ messagesCreateResolved(i)
        \/ messagesCreateRejected(i)

SpecServer == Init /\ [][NextServer]_vars

\* the page with the first render of the camera view as a step of its own:
\* between the grant and that render only the bind timer can run
NextMount ==
    \/ ~mounting /\ handleFileSelect
    \/ ~mounting /\ startCamera
    \/ ~mounting /\ capturePhoto
    \/ ~mounting /\ handleReset
    \/ ~mounting /\ getUserMediaGrantedUnrendered
    \/ ~mounting /\ getUserMediaDenied
    \/ ~mounting /\ readerOnload
    \/ ~mounting /\ toBlobCallbackBlob
    \/ ~mounting /\ toBlobCallbackNull
    \/ ~mounting /\ fetchResolved
    \/ mountVideo
    \/ bindTimerOnce

SpecMount == Init /\ [][NextMount]_vars

TypeOK ==
    /\ mode \in Modes
    /\ result \in Texts \cup {NULL}
    /\ streamRef \in 0..MaxStreams
    /\ live \subseteq 1..MaxStreams
    /\ inflight \in 0..MaxPending

----------------------------------------------------------------------------
(* Properties *)

AllowedTransitions ==
    {<<"home", "camera">>, <<"home", "processing">>,
     <<"camera", "processing">>, <<"camera", "home">>,
     <<"processing", "result">>, <<"result", "home">>}

\* C1: every change of mode is one of home->camera, home->processing,
\* camera->processing, camera->home, processing->result, result->home.
C1_ModeTransitions ==
    [][mode' /= mode => <<mode, mode'>> \in AllowedTransitions]_vars

\* C2: result and error are never both non-null.
C2_ResultErrorExclusive == ~(result /= NULL /\ error /= NULL)

\* C3: result and error are both null while mode is home, camera or
\* processing, and one of them is non-null while mode is result.
C3_ResultNullOutsideResultMode ==
    /\ mode \in {"home", "camera", "processing"} => (result = NULL /\ error = NULL)
    /\ mode = "result" => (result /= NULL \/ error /= NULL)

\* C4: at most one handleOCR call has its fetch unresolved at any time.
C4_OneRelayInFlight == inflight <= 1

\* C5: whenever mode changes from camera to another mode, every stream that
\* was opened is stopped and streamRef is null in the state the change yields.
C5_ReleasedOnCameraExit ==
    [][(mode = "camera" /\ mode' /= "camera") =>
            (live' = {} /\ streamRef' = NoStream)]_vars

\* C6: at most one opened stream has tracks that are not stopped.
C6_OneLiveStream == Cardinality(live) <= 1

\* the step in which a getUserMedia request resolves with a stream
GrantStep == opened' = opened + 1

\* the step in which a getUserMedia request is refused
DeniedStep == pendingCam' = pendingCam - 1 /\ opened' = opened

\* C7: a stream granted after the user has left home is closed at once: it is
\* not stored in streamRef, mode does not change, the stream is not live and
\* no bind of it to the video element is scheduled.
C7_LateGrantClosed ==
    [][(GrantStep /\ mode /= "home") =>
            /\ streamRef' = streamRef
            /\ mode' = mode
            /\ opened' \notin live'
            /\ timerQ' = timerQ]_vars

\* C8: streamRef is null in every state whose mode is home.
C8_NoSessionAtHome == mode = "home" => streamRef = NoStream

\* C8 witness: mode is back at home after streams were granted, one of them
\* still live, and the handle is null.
C8_Witness == mode = "home" /\ opened > 0 /\ live /= {} /\ streamRef = NoStream

\* a capture from a camera frame is in flight: toBlob has not called back
CaptureInFlight == blobQ /= <<>>

\* C9: streamRef is non-null exactly when mode is camera or a capture from a
\* camera frame is in flight.
C9_SessionIffCameraOrCapture ==
    (streamRef /= NoStream) <=> (mode = "camera" \/ CaptureInFlight)

\* C10: when a camera-access request is refused, mode is left as it was, no
\* stream is stored or opened, and error becomes the camera message.
C10_DeniedKeepsMode ==
    [][DeniedStep =>
            /\ mode' = mode
            /\ streamRef' = streamRef
            /\ live' = live
            /\ error' = CameraError]_vars

\* C10 witness: a refusal has set the message with mode home and no stream stored.
C10_Witness == error = CameraError /\ mode = "home" /\ streamRef = NoStream /\ opened = 0

\* C11: in the state right after a camera-access request is refused, the
\* rendered view displays the error text.
C11_DenialShown == [][DeniedStep => ErrorShown']_vars

\* the step in which the fetch of a handleOCR call settles
RelayStep == inflight' = inflight - 1

\* t is s without its leading and trailing whitespace
IsTrimOf(t, s) ==
    \E i, j \in 0..Len(s) :
        /\ i + j <= Len(s)
        /\ t = SubSeq(s, i + 1, Len(s) - j)
        /\ \A k \in 1..i : s[k] = " "
        /\ \A k \in (Len(s) - j + 1)..Len(s) : s[k] = " "
        /\ t /= <<>> => (t[1] /= " " /\ t[Len(t)] /= " ")

\* what the relay must yield for service outcome r
RelayExpected(r) ==
    IF r.net = "failure" THEN error' = <<"Failed to fetch">>
    ELSE IF ~r.ok THEN error' = <<"Server error: ", r.status>>
    ELSE IF r.json /= "object" THEN TRUE
    ELSE IF r.kind = "string" THEN IsTrimOf(result', r.text)
    ELSE result' = <<>> /\ error' = error

\* C12: a 2xx response with a string text field yields that field trimmed; a
\* 2xx response whose text field is absent or not a string yields "" and sets
\* no error; a non-2xx response yields "Server error: " + statusText; a
\* network failure yields the failure description; mode becomes result.
C12_RelayMapping ==
    [][RelayStep =>
            \A r \in Responses :
                handleOCRDone(r) => (mode' = "result" /\ RelayExpected(r))]_vars

\* C12 witness: a relay call has completed with a text and no error.
C12_Witness == mode = "result" /\ result = <<"a">> /\ error = NULL /\ inflight = 0

\* C13: every completion of a relay call sets exactly one of result and error
\* to a value, leaves the other as it was, and ends in mode result, whatever
\* the outcome of the request (2xx, non-2xx, unparsable body, network failure).
C13_RelaySetsExactlyOne ==
    [][RelayStep =>
            /\ mode' = "result"
            /\ \/ (result' /= NULL /\ error' = error)
               \/ (error' /= NULL /\ result' = result)
            /\ result' /= NULL \/ error' /= NULL]_vars

\* C13 witness: a relay call has completed on a body that does not parse.
C13_Witness == mode = "result" /\ error = ParseFailure /\ result = NULL /\ inflight = 0

\* C14: whenever mode is processing, mode eventually becomes result, given
\* that every pending fetch eventually settles.
C14_ProcessingLeadsToResult == (mode = "processing") ~> (mode = "result")

\* C14 witness: mode result reached from processing with camera activity
\* interleaved (a stream was granted before the relay resolved).
C14_Witness == mode = "result" /\ opened > 0 /\ inflight = 0 /\ live /= {}

\* the step in which handleReset runs: the only step that sets mode to home
ResetStep == mode /= "home" /\ mode' = "home"

\* the state handleReset leaves: home, everything cleared, no stream stored
ResetPost ==
    /\ mode = "home"
    /\ result = NULL
    /\ error = NULL
    /\ preview = NULL
    /\ ~fileValue
    /\ streamRef = NoStream

\* C15: handleReset stops the stored stream and leaves mode home with result,
\* error, preview and the file selection cleared and no stream stored; in the
\* state it leaves, running it again changes nothing.
C15_ResetClearsAndIdempotent ==
    /\ [][ResetStep => (ResetPost' /\ streamRef \notin live')]_vars
    /\ [](ResetPost => ENABLED (reset /\ UNCHANGED vars))

\* C15 witness: a reset has run from the camera view after a capture, with a
\* preview set and a stream stored before it.
C15_Witness == ResetPost /\ opened > 0 /\ blobQ /= <<>>

\* the step in which capturePhoto runs: a frame is handed to the encoder
CaptureStep == Len(blobQ') = Len(blobQ) + 1

\* the step in which the encoder calls back
EncodedStep == Len(blobQ') = Len(blobQ) - 1

\* the step in which handleFileSelect runs: a file read is started
SelectStep == pendingRead' = pendingRead + 1

\* C16: capturePhoto sets the preview and releases the stored stream without
\* starting a relay call or changing mode; a relay call is started only by a
\* later encoder callback that carries a blob (or by a file selection); a callback
\* without a blob starts none and leaves mode and everything shown as it was.
C16_CaptureOrder ==
    /\ [][CaptureStep =>
            /\ mode = "camera" /\ mode' = "camera"
            /\ preview' = FramePreview
            /\ streamRef' = NoStream
            /\ streamRef \notin live'
            /\ inflight' = inflight]_vars
    /\ [][(inflight' > inflight) =>
            \/ EncodedStep /\ Head(blobQ)
            \/ SelectStep]_vars
    /\ [][(EncodedStep /\ ~Head(blobQ)) =>
            /\ inflight' = inflight
            /\ UNCHANGED <<mode, result, error, preview, streamRef, live>>]_vars

\* C16 witness: on the camera view a frame was captured and the encoder has
\* called back without a blob: preview set, no stream stored, no relay call.
C16_Witness ==
    /\ mode = "camera"
    /\ opened = 1
    /\ preview = FramePreview
    /\ streamRef = NoStream
    /\ live = {}
    /\ blobQ = <<>>
    /\ inflight = 0

\* the request was refused by upload.single: wrong mimetype or too large
UploadRejected(q) ==
    /\ q.field
    /\ \/ ~StartsWith(q.mime, ImagePrefix)
       \/ q.size > FileSizeLimit

\* C17: a request refused for its mimetype or for exceeding 50 MiB is
\* answered with a 4xx status; a request without an image part is answered
\* 400 "No image provided"; only a failed upstream call is answered 500.
C17_RejectionStatus ==
    \A i \in 1..MaxReqs :
        reqs[i].stage = "answered" =>
            /\ UploadRejected(reqs[i].req) => reqs[i].status \in 400..499
            /\ ~reqs[i].req.field =>
                    (reqs[i].status = 400 /\ reqs[i].body = "No image provided")
            /\ reqs[i].status = 500 => reqs[i].by = "catch"

\* the camera view is mounted with a stream stored, and no grant or bind
\* attempt is outstanding
BindSettled ==
    /\ mode = "camera"
    /\ ~mounting
    /\ streamRef /= NoStream
    /\ pendingCam = 0
    /\ timerQ = <<>>

\* C18: once the camera view is mounted and every bind attempt has run, the
\* stored stream is the one bound to the video element, whether the view
\* mounted before or after the first attempt.
C18_BoundOnceMounted == BindSettled => videoSrc = streamRef

\* C19: mode leaves home only in the step of a file selection or of a
\* granted camera request; no encoder callback or relay response of an
\* earlier capture moves mode out of home.
C19_LeavesHomeByUserAction ==
    [][(mode = "home" /\ mode' /= "home") => (SelectStep \/ GrantStep)]_vars

\* the step in which the result textarea is edited: mode stays result, the
\* error is kept and no completion is consumed
EditStep ==
    /\ mode = "result"
    /\ mode' = "result"
    /\ error' = error
    /\ UNCHANGED <<pendingCam, timerQ, pendingRead, blobQ, inflight>>

\* C20: while mode is result, the text and the error change only in an edit
\* of the textarea or in a reset, and a copy writes exactly the current text.
C20_ResultChangesOnlyByEdit ==
    /\ [][(mode = "result" /\ (result' /= result \/ error' /= error)) =>
            (EditStep \/ ResetStep)]_vars
    /\ [][clipboard' /= NULL => (clipboard' = result /\ result' = result)]_vars

====
